---- MODULE Spec2Model ----
(***************************************************************************)
(* Model of src/src/extension.ts (fetch-user-environment): the settings    *)
(* comparison (compareUpdate, compareRemoteSettings,                       *)
(* compareDefaultSettings, updateSettings), the extension pass             *)
(* (getInstalledExtensions, installNewExtensions) and the path             *)
(* confirmation loops of fetchExtensions and fetchSettings.                *)
(***************************************************************************)
EXTENDS Integers, Sequences, FiniteSets, TLC

VARIABLES
    localFile,          \* local settings.json: [st, doc]
    remoteFile,         \* settings.json of the remote settings directory
    defaultsFile,       \* the default-settings file of the remote directory
    fsExt,              \* paths at which fs.existsSync(path) holds
    fsSet,              \* paths at which settings.json exists
    fsDef,              \* filenames that exist in the remote settings directory
    extPath,            \* this._remoteExtensionPath
    setPath,            \* this._remoteSettingsPath
    defName,            \* this._remoteDefaultSettingsFilename
    localExtVersions,   \* this._localExtVersions
    installed,          \* vscode.extensions.all below the local extension path
    remoteExts,         \* the folders of the remote extension directory
    run,                \* the runs of fetchExtensions / fetchSettings
    pass,               \* record of the last settings pass (compareSettings)
    extPass,            \* record of the last extension pass
    dirs,               \* the directories of the remote share and what they hold
    save                \* the runs of saveEnvironment

vars == <<localFile, remoteFile, defaultsFile, fsExt, fsSet, fsDef, extPath,
          setPath, defName, localExtVersions, installed, remoteExts, run,
          pass, extPass, dirs, save>>

-----------------------------------------------------------------------------
(* Bounds *)

\* numbers used as scalar settings values are 1..MaxNum
MaxNum == 2
\* settings passes performed in one behaviour of SpecSettings
MaxPass == 2

-----------------------------------------------------------------------------
(* JSON values as JSON.parse builds them.  An object or an array keeps its *)
(* entries in property order (the order for..in enumerates them).  Strings *)
(* are one-character strings, so the character at index 0 of a string is   *)
(* the string itself.                                                      *)

Val(t, n, s, kv) == [t |-> t, n |-> n, s |-> s, kv |-> kv]
Entry(k, v) == [k |-> k, v |-> v]

Undefined == Val("undefined", 0, "", <<>>)
Null == Val("null", 0, "", <<>>)
Num(i) == Val("number", i, "", <<>>)
Str(c) == Val("string", 0, c, <<>>)
Bool(b) == Val("boolean", IF b THEN 1 ELSE 0, "", <<>>)
Obj(kv) == Val("object", 0, "", kv)
IndexKey(i) == <<"0", "1", "2", "3">>[i]
Arr(elems) == Val("array", 0, "", [i \in 1..Len(elems) |-> Entry(IndexKey(i), elems[i])])
EmptyObj == Obj(<<>>)
EmptyArr == Arr(<<>>)

\* a typeof that tells an array from a mapping
TypeofArray(v) == IF v.t \in {"object", "null"} THEN "object" ELSE v.t

\* typeof v
Typeof(v) == IF v.t \in {"object", "array", "null"} THEN "object" ELSE v.t

\* the keys  for (let prop in v)  enumerates, in order
ForIn(v) ==
    IF v.t \in {"object", "array"} THEN [i \in 1..Len(v.kv) |-> v.kv[i].k]
    ELSE IF v.t = "string" /\ v.s # "" THEN <<"0">>
    ELSE <<>>

KeySet(v) == {ForIn(v)[i] : i \in 1..Len(ForIn(v))}

\* v.hasOwnProperty(k), v not null or undefined
HasOwnProperty(v, k) == k \in KeySet(v)

\* v[k], v not null or undefined
Get(v, k) ==
    IF v.t \in {"object", "array"}
    THEN IF k \in KeySet(v)
         THEN v.kv[CHOOSE i \in 1..Len(v.kv) : v.kv[i].k = k].v
         ELSE Undefined
    ELSE IF v.t = "string" /\ v.s # "" /\ k = "0" THEN v
    ELSE Undefined

\* reading a property of null or undefined throws a TypeError
Nullish(v) == v.t \in {"null", "undefined"}

\* results of a call: err is "" (returned), "JSONError" or "TypeError"
Return(v) == [err |-> "", val |-> v]
Throw(e) == [err |-> e, val |-> Undefined]

\* target[k] = v : replaces in place, or appends a new last property
SetProp(target, k, v) ==
    IF k \in KeySet(target)
    THEN [target EXCEPT !.kv = [i \in 1..Len(target.kv) |->
              IF target.kv[i].k = k THEN Entry(k, v) ELSE target.kv[i]]]
    ELSE [target EXCEPT !.kv = Append(target.kv, Entry(k, v))]

\* Object.assign(target, source)
RECURSIVE AssignFrom(_, _, _)
AssignFrom(target, source, i) ==
    IF i > Len(source.kv) THEN target
    ELSE AssignFrom(SetProp(target, source.kv[i].k, source.kv[i].v), source, i + 1)

ObjectAssign(target, source) == AssignFrom(target, source, 1)

\* JSON.parse(JSON.stringify(v, null, 2)): a property whose value is
\* undefined is not written, an undefined array element is written as null
RECURSIVE JsonRoundTrip(_)
JsonRoundTrip(v) ==
    IF v.t = "object"
    THEN LET kept == SelectSeq(v.kv, LAMBDA e : e.v.t # "undefined")
         IN  Obj([i \in 1..Len(kept) |-> Entry(kept[i].k, JsonRoundTrip(kept[i].v))])
    ELSE IF v.t = "array"
    THEN Arr([i \in 1..Len(v.kv) |->
              IF v.kv[i].v.t = "undefined" THEN Null ELSE JsonRoundTrip(v.kv[i].v)])
    ELSE v

-----------------------------------------------------------------------------
(* compareUpdate *)

RECURSIVE compareUpdate(_, _)
RECURSIVE CompareEach(_, _, _)

\* CompareEach with every nested value taken as a difference
CompareEachShallow(base, compare, i) ==
    IF i > Len(ForIn(compare)) THEN Return(EmptyObj)
    ELSE LET prop == ForIn(compare)[i]
         IN  IF Typeof(Get(compare, prop)) = "object" THEN Return(compare)
             ELSE IF Get(base, prop) # Get(compare, prop) THEN Return(compare)
             ELSE CompareEach(base, compare, i + 1)

\* b !== c for two values read from two parsed documents: a mapping or an
\* array is the same as no other value, scalars are compared by value
StrictlyUnequal(b, c) ==
    IF b.t \in {"object", "array"} \/ c.t \in {"object", "array"} THEN TRUE ELSE b # c

\* the third loop with every value compared by !==: two parsed mappings or
\* arrays are never the same object
CompareEachByIdentity(base, compare, i) ==
    IF i > Len(ForIn(compare)) THEN Return(EmptyObj)
    ELSE LET prop == ForIn(compare)[i]
             b == Get(base, prop)
             c == Get(compare, prop)
         IN  IF c.t \in {"object", "array"} \/ b # c THEN Return(compare)
             ELSE CompareEach(base, compare, i + 1)

\* the third loop of compareUpdate, from the i-th property of compare on
CompareEach(base, compare, i) ==
    IF i > Len(ForIn(compare)) THEN Return(EmptyObj)
    ELSE LET prop == ForIn(compare)[i]
             b == Get(base, prop)
             c == Get(compare, prop)
         IN  IF Typeof(c) = "object"
             THEN LET diff == compareUpdate(b, c)
                  IN  IF diff.err # "" THEN diff
                      ELSE IF Len(ForIn(diff.val)) > 0 THEN Return(compare)
                      ELSE CompareEach(base, compare, i + 1)
             ELSE IF StrictlyUnequal(b, c) THEN Return(compare)
             ELSE CompareEach(base, compare, i + 1)

compareUpdate(base, compare) ==
    LET ck == ForIn(compare)
        bk == ForIn(base)
    IN  IF Len(ck) > 0 /\ Nullish(base) THEN Throw("TypeError")
        ELSE IF \E i \in 1..Len(ck) :
                    \/ Typeof(Get(base, ck[i])) = "undefined"
                    \/ ~HasOwnProperty(base, ck[i])
        THEN Return(compare)
        ELSE IF Len(bk) > 0 /\ Nullish(compare) THEN Throw("TypeError")
        ELSE IF \E i \in 1..Len(bk) :
                    \/ Typeof(Get(compare, bk[i])) = "undefined"
                    \/ ~HasOwnProperty(compare, bk[i])
        THEN Return(compare)
        ELSE CompareEach(base, compare, 1)

-----------------------------------------------------------------------------
(* Settings files.  A file is [st, doc]: st is "ok" (doc is what JSON.parse *)
(* returns), "bad" (the text is not JSON) or "missing".                    *)

File(st, doc) == [st |-> st, doc |-> doc]
MissingFile == File("missing", EmptyObj)
BadFile == File("bad", EmptyObj)

KeyExtPath == "fetchUserEnv.remoteExtensionPath"
KeySetPath == "fetchUserEnv.remoteSettingsPath"
KeyDefName == "fetchUserEnv.remoteDefaultSettingsFilename"
KeyPalSave == "fetchUserEnv.palEnableSaveEnv"

\* prop.startsWith('fetchUserEnv'), over the keys of the model
StartsWithFetchUserEnv(k) == k \in {KeyExtPath, KeySetPath, KeyDefName, KeyPalSave}

\* the loop of readSettingsFile that deletes the extension's own settings
FilterOwnSettings(doc) ==
    [doc EXCEPT !.kv = SelectSeq(doc.kv, LAMBDA e : ~StartsWithFetchUserEnv(e.k))]

\* readSettingsFile with the filter never applied
readSettingsFileUnfiltered(file, filter) ==
    IF file.st # "ok" THEN Throw("JSONError") ELSE Return(file.doc)

\* readSettingsFile(filePath, filter) of the file at filePath
readSettingsFile(file, filter) ==
    IF file.st # "ok" THEN Throw("JSONError")
    ELSE Return(IF filter THEN FilterOwnSettings(file.doc) ELSE file.doc)

\* updateSettings with the arguments of Object.assign exchanged
updateSettingsKeepLocal(file, newSettings) ==
    LET read == IF file.st = "missing" THEN Return(EmptyObj)
                ELSE readSettingsFile(file, FALSE)
    IN  IF read.err # "" THEN [err |-> read.err, file |-> file]
        ELSE [err |-> "",
              file |-> File("ok", JsonRoundTrip(ObjectAssign(newSettings, read.val)))]

\* updateSettings reading the local file with the filter on
updateSettingsFiltered(file, newSettings) ==
    LET read == IF file.st = "missing" THEN Return(EmptyObj)
                ELSE readSettingsFile(file, TRUE)
    IN  IF read.err # "" THEN [err |-> read.err, file |-> file]
        ELSE [err |-> "",
              file |-> File("ok", JsonRoundTrip(ObjectAssign(read.val, newSettings)))]

\* updateSettings(newSettings) on the local settings file: [err, file]
updateSettings(file, newSettings) ==
    LET read == IF file.st = "missing" THEN Return(EmptyObj)
                ELSE readSettingsFile(file, FALSE)
    IN  IF read.err # "" THEN [err |-> read.err, file |-> file]
        ELSE [err |-> "",
              file |-> File("ok", JsonRoundTrip(ObjectAssign(read.val, newSettings)))]

RECURSIVE MissingDefaults(_, _, _, _)

\* MissingDefaults that also takes a key whose value differs
MissingDefaultsByValue(defaultSettings, localSettings, i, newSettings) ==
    IF i > Len(ForIn(defaultSettings)) THEN newSettings
    ELSE LET prop == ForIn(defaultSettings)[i]
         IN  MissingDefaults(defaultSettings, localSettings, i + 1,
                 IF Get(localSettings, prop) # Get(defaultSettings, prop)
                 THEN SetProp(newSettings, prop, Get(defaultSettings, prop))
                 ELSE newSettings)

\* the loop of compareDefaultSettings over the properties of defaultSettings
MissingDefaults(defaultSettings, localSettings, i, newSettings) ==
    IF i > Len(ForIn(defaultSettings)) THEN newSettings
    ELSE LET prop == ForIn(defaultSettings)[i]
         IN  MissingDefaults(defaultSettings, localSettings, i + 1,
                 IF ~HasOwnProperty(localSettings, prop)
                 THEN SetProp(newSettings, prop, Get(defaultSettings, prop))
                 ELSE newSettings)

\* the result of a comparison: the error thrown (if any), the delta handed to
\* updateSettings and the local file it leaves
Compared(err, delta, file) == [err |-> err, delta |-> delta, file |-> file]

\* what updateSettings(newSettings) left: the delta and the file written
Saved(newSettings, written) == Compared(written.err, newSettings, written.file)

\* if (updated) { this.updateSettings(newSettings); } return updated;
SaveIfUpdated(local, newSettings) ==
    IF Len(ForIn(newSettings)) = 0 THEN Compared("", EmptyObj, local)
    ELSE Saved(newSettings, updateSettings(local, newSettings))

\* compareDefaultSettings once both files were read (d, l the two reads)
DefaultsCompared(local, d, l) ==
    IF d.err # "" THEN Compared(d.err, EmptyObj, local)
    ELSE IF l.err # "" THEN Compared(l.err, EmptyObj, local)
    ELSE SaveIfUpdated(local, MissingDefaults(d.val, l.val, 1, EmptyObj))

\* compareDefaultSettings, name = this._remoteDefaultSettingsFilename
compareDefaultSettings(local, defaults, name) ==
    IF name = "" THEN Compared("", EmptyObj, local)
    ELSE DefaultsCompared(local, readSettingsFile(defaults, TRUE),
                          readSettingsFile(local, TRUE))

RECURSIVE RemoteUpdates(_, _, _, _)

\* RemoteUpdates that skips a remote key the local document lacks
RemoteUpdatesKnownKeys(remoteSettings, localSettings, i, newSettings) ==
    IF i > Len(ForIn(remoteSettings)) THEN Return(newSettings)
    ELSE LET prop == ForIn(remoteSettings)[i]
             base == Obj(<<Entry(prop, Get(localSettings, prop))>>)
             compare == Obj(<<Entry(prop, Get(remoteSettings, prop))>>)
             res == compareUpdate(base, compare)
         IN  IF ~HasOwnProperty(localSettings, prop)
             THEN RemoteUpdates(remoteSettings, localSettings, i + 1, newSettings)
             ELSE IF res.err # "" THEN res
             ELSE RemoteUpdates(remoteSettings, localSettings, i + 1,
                      IF Len(ForIn(res.val)) > 0
                      THEN ObjectAssign(newSettings, res.val)
                      ELSE newSettings)

\* the loop of compareRemoteSettings over the properties of remoteSettings
RemoteUpdates(remoteSettings, localSettings, i, newSettings) ==
    IF i > Len(ForIn(remoteSettings)) THEN Return(newSettings)
    ELSE LET prop == ForIn(remoteSettings)[i]
             base == Obj(<<Entry(prop, Get(localSettings, prop))>>)
             compare == Obj(<<Entry(prop, Get(remoteSettings, prop))>>)
             res == compareUpdate(base, compare)
         IN  IF res.err # "" THEN res
             ELSE RemoteUpdates(remoteSettings, localSettings, i + 1,
                      IF Len(ForIn(res.val)) > 0
                      THEN ObjectAssign(newSettings, res.val)
                      ELSE newSettings)

\* compareRemoteSettings once its loop ended (upd its result)
RemoteLooped(local, upd) ==
    IF upd.err # "" THEN Compared(upd.err, EmptyObj, local)
    ELSE SaveIfUpdated(local, upd.val)

\* compareRemoteSettings once both files were read (r, l the two reads)
RemoteCompared(local, r, l) ==
    IF r.err # "" THEN Compared(r.err, EmptyObj, local)
    ELSE IF l.err # "" THEN Compared(l.err, EmptyObj, local)
    ELSE RemoteLooped(local, RemoteUpdates(r.val, l.val, 1, EmptyObj))

compareRemoteSettings(local, remote) ==
    RemoteCompared(local, readSettingsFile(remote, TRUE), readSettingsFile(local, TRUE))

\* compareSettings once both comparisons returned (d, r their results)
BothCompared(d, r) ==
    [err |-> r.err, defDelta |-> d.delta, remDelta |-> r.delta,
     remoteDone |-> TRUE, mid |-> d.file, file |-> r.file]

\* compareSettings once compareDefaultSettings ended (d its result): an error
\* thrown by it skips the remote comparison
DefaultsDone(d, remote) ==
    IF d.err # ""
    THEN [err |-> d.err, defDelta |-> d.delta, remDelta |-> EmptyObj,
          remoteDone |-> FALSE, mid |-> d.file, file |-> d.file]
    ELSE BothCompared(d, compareRemoteSettings(d.file, remote))

\* compareSettings: the defaults merge, then the remote comparison on the
\* local file the merge left
compareSettings(local, remote, defaults, name) ==
    DefaultsDone(compareDefaultSettings(local, defaults, name), remote)


-----------------------------------------------------------------------------
(* Extensions *)

\* the largest minor version number of the model
MaxMinor == 10

\* the decimal digits of a number below 100, as a part of a version string
Digits(n) == IF n < 10 THEN <<n>> ELSE <<n \div 10, n % 10>>

\* a version string major.minor.patch: its parts between the dots, each the
\* sequence of its digits
Version(major, minor, patch) == <<Digits(major), Digits(minor), Digits(patch)>>

\* minor numbers on both sides of a change in the number of digits
Minors == {0} \cup 9..MaxMinor
Versions == {Version(1, i, 0) : i \in Minors}
ExtIds == {"pub.ext"}

\* Number(part) of a part that is all digits
RECURSIVE Number(_)
Number(part) ==
    IF Len(part) = 0 THEN 0
    ELSE 10 * Number(SubSeq(part, 1, Len(part) - 1)) + part[Len(part)]

\* the order of two parts as text: digit by digit, a proper prefix first
RECURSIVE TextCompare(_, _, _)
TextCompare(x, y, i) ==
    IF i > Len(x) /\ i > Len(y) THEN 0
    ELSE IF i > Len(x) THEN -1
    ELSE IF i > Len(y) THEN 1
    ELSE IF x[i] # y[i] THEN (IF x[i] > y[i] THEN 1 ELSE -1)
    ELSE TextCompare(x, y, i + 1)

\* the loop of semver-compare over the three parts, from part i
RECURSIVE CompareParts(_, _, _)
CompareParts(pa, pb, i) ==
    IF i > 3 THEN 0
    ELSE IF Number(pa[i]) > Number(pb[i]) THEN 1
    ELSE IF Number(pb[i]) > Number(pa[i]) THEN -1
    ELSE CompareParts(pa, pb, i + 1)

\* the versions compared as text, part by part
compareVerAsText(a, b) ==
    IF TextCompare(a[1], b[1], 1) # 0 THEN TextCompare(a[1], b[1], 1)
    ELSE IF TextCompare(a[2], b[2], 1) # 0 THEN TextCompare(a[2], b[2], 1)
    ELSE TextCompare(a[3], b[3], 1)

\* compareVer(a, b) of semver-compare: the parts of a and b between the dots
\* are compared as numbers, major first
compareVer(a, b) == CompareParts(a, b, 1)

\* an id -> version map with no entry
NoVersions == [id \in {} |-> Version(0, 0, 0)]

\* getInstalledExtensions: the entries of the installed extensions are
\* written into this._localExtVersions, the other entries stay
getInstalledExtensions(versions, inst) ==
    [id \in DOMAIN versions \cup DOMAIN inst |->
        IF id \in DOMAIN inst THEN inst[id] ELSE versions[id]]

\* a folder of the remote extension directory: meta says whether package.json
\* is there ("ok"), is not there ("none") or is not JSON ("bad")
Folder(meta, id, version) == [meta |-> meta, id |-> id, version |-> version]

\* the test of installNewExtensions that skips a candidate
UpToDate(versions, f) ==
    f.id \in DOMAIN versions /\ compareVer(versions[f.id], f.version) >= 0

\* the loop of installNewExtensions: [err, copied], copied the folders copied
RECURSIVE InstallLoop(_, _, _, _)
InstallLoop(folders, versions, i, copied) ==
    IF i > Len(folders) THEN [err |-> "", copied |-> copied]
    ELSE IF folders[i].meta = "none" THEN InstallLoop(folders, versions, i + 1, copied)
    ELSE IF folders[i].meta = "bad" THEN [err |-> "JSONError", copied |-> copied]
    ELSE IF UpToDate(versions, folders[i]) THEN InstallLoop(folders, versions, i + 1, copied)
    ELSE InstallLoop(folders, versions, i + 1, copied \cup {i})

installNewExtensions(folders, versions) == InstallLoop(folders, versions, 1, {})

NoExtPass ==
    [n |-> 0, err |-> "", copied |-> {}, installedAt |-> NoVersions]

-----------------------------------------------------------------------------
(* Runs of fetchExtensions and fetchSettings.  A run is suspended only at an *)
(* input box or at an error dialog with choices; what it executes between  *)
(* two suspensions is one step.                                            *)

\* dialogs with choices the runs of one process may show and continue from
MaxDialogs == 2
\* commands the user invokes in one behaviour
MaxCommands == 1

Paths == {"p", "q"}
Names == {"d"}
Procs == {"startup", "command"}

IdleRun ==
    [pc |-> "idle", op |-> "", prompt |-> FALSE, n |-> 0, configured |-> FALSE,
     inputs |-> 0, dialogs |-> 0, reenters |-> 0, wrote |-> FALSE,
     copied |-> FALSE, result |-> "", startLocal |-> MissingFile, shown |-> 0,
     confirmed |-> <<>>, synced |-> <<>>, choice |-> ""]

\* the run record of a call op(prompt) by a process whose last run was r
NewRun(r, op, prompt, configured) ==
    [pc |-> "running", op |-> op, prompt |-> prompt, n |-> r.n + 1,
     configured |-> configured, inputs |-> 0, dialogs |-> 0, reenters |-> 0,
     wrote |-> FALSE, copied |-> FALSE, result |-> "", startLocal |-> localFile,
     shown |-> r.shown, confirmed |-> <<>>, synced |-> <<>>, choice |-> ""]

Finish(r, result) == [r EXCEPT !.pc = "done", !.result = result]

\* the early return taken by the interactive call instead
SilentReturnWhenPrompted(prompt, reenter) == prompt /\ ~reenter

\* if (!prompt && !reenter) return;
SilentReturn(prompt, reenter) == ~prompt /\ ~reenter

\* fetchExtensions once installNewExtensions returned or threw res
Installed(r, known, res) ==
    [r |-> Finish([r EXCEPT !.copied = res.copied # {}],
                  IF res.err = "" THEN "done" ELSE res.err),
     versions |-> known,
     extPass |-> [n |-> extPass.n + 1, err |-> res.err, copied |-> res.copied,
                  installedAt |-> installed]]

\* fetchExtensions once getInstalledExtensions filled this._localExtVersions
VersionsKnown(r, known) == Installed(r, known, installNewExtensions(remoteExts, known))

\* the part of fetchExtensions after the path was confirmed; ep is the
\* this._remoteExtensionPath that installNewExtensions reads
ExtensionPass(r, ep, versions) ==
    VersionsKnown([r EXCEPT !.synced = <<ep>>], getInstalledExtensions(versions, installed))

\* the while loop left without the existence check
ExtLoopUnchecked(r, reenter, ep, versions) ==
    IF ep = "" \/ reenter
    THEN [r |-> Finish(r, "abandoned"), versions |-> versions, extPass |-> extPass]
    ELSE ExtensionPass(r, ep, versions)

\* fetchExtensions from the head of its while loop; ep is
\* this._remoteExtensionPath
ExtLoop(r, reenter, ep, versions) ==
    IF ep = "" \/ reenter
    THEN IF SilentReturn(r.prompt, reenter)
         THEN [r |-> Finish(r, "abandoned"), versions |-> versions, extPass |-> extPass]
         ELSE [r |-> [r EXCEPT !.pc = "extInput", !.inputs = @ + 1],
               versions |-> versions, extPass |-> extPass]
    ELSE IF ep \notin fsExt
    THEN [r |-> [r EXCEPT !.pc = "extDialog", !.dialogs = @ + 1, !.shown = @ + 1,
                          !.confirmed = <<>>],
          versions |-> versions, extPass |-> extPass]
    ELSE ExtensionPass([r EXCEPT !.confirmed = <<ep>>], ep, versions)


-----------------------------------------------------------------------------
(* The state a settings pass works on *)

\* the file path.join(sp, 'settings.json')
RemoteSettingsAt(sp) == IF sp \in fsSet THEN remoteFile ELSE MissingFile

\* the file path.join(sp, dn)
DefaultSettingsAt(sp, dn) == IF <<sp, dn>> \in fsDef THEN defaultsFile ELSE MissingFile

NoPass ==
    [n |-> 0, err |-> "", defDelta |-> EmptyObj, remDelta |-> EmptyObj,
     remoteDone |-> FALSE, before |-> MissingFile, mid |-> MissingFile,
     prevErr |-> "", prevDelta |-> EmptyObj]

\* the record of one call of compareSettings: before is the local file the
\* call found, mid the local file the remote comparison read
PassRecord(prev, local, res) ==
    [n |-> prev.n + 1, err |-> res.err, defDelta |-> res.defDelta,
     remDelta |-> res.remDelta, remoteDone |-> res.remoteDone,
     before |-> local, mid |-> res.mid, prevErr |-> prev.err,
     prevDelta |-> prev.remDelta]

\* one call of compareSettings with the paths confirmed
\* the effect of a call of compareSettings that returned or threw res
SettingsCompared(res) ==
    /\ localFile' = res.file
    /\ pass' = PassRecord(pass, localFile, res)

SettingsPass ==
    /\ pass.n < MaxPass
    /\ SettingsCompared(compareSettings(localFile, RemoteSettingsAt(setPath),
                                        DefaultSettingsAt(setPath, defName), defName))
    /\ UNCHANGED <<remoteFile, defaultsFile, fsExt, fsSet, fsDef, extPath,
                   setPath, defName, localExtVersions, installed, remoteExts,
                   run, extPass, dirs, save>>

-----------------------------------------------------------------------------
(* fetchSettings *)

\* fetchSettings once compareSettings returned or threw res
Reported(r, local, prev, res) ==
    [r |-> Finish([r EXCEPT !.wrote = @ \/ res.file # local],
                  IF res.err = "" THEN "done" ELSE res.err),
     local |-> res.file,
     pass |-> PassRecord(prev, local, res)]

\* compareSettings on the local document as it was when the run began
ComparePassOnStartLocal(r, sp, dn, local, prev) ==
    Reported([r EXCEPT !.synced = <<sp>>], r.startLocal, prev,
             compareSettings(r.startLocal, RemoteSettingsAt(sp),
                             DefaultSettingsAt(sp, dn), dn))

\* the part of fetchSettings after both loops: compareSettings and its report
ComparePass(r, sp, dn, local, prev) ==
    Reported([r EXCEPT !.synced = <<sp>>], local, prev,
             compareSettings(local, RemoteSettingsAt(sp), DefaultSettingsAt(sp, dn), dn))

\* fetchSettings from the head of its second while loop (the default-settings
\* file); dn is this._remoteDefaultSettingsFilename
DefLoop(r, sp, dn, local, prev) ==
    IF dn # "" /\ <<sp, dn>> \notin fsDef
    THEN [r |-> [r EXCEPT !.pc = "defDialog", !.dialogs = @ + 1, !.shown = @ + 1],
          local |-> local, pass |-> prev]
    ELSE ComparePass(r, sp, dn, local, prev)

\* fetchSettings from the head of its first while loop; sp is
\* this._remoteSettingsPath
SetLoop(r, reenter, sp, dn, local, prev) ==
    IF sp = "" \/ reenter
    THEN IF SilentReturn(r.prompt, reenter)
         THEN [r |-> Finish(r, "abandoned"), local |-> local, pass |-> prev]
         ELSE [r |-> [r EXCEPT !.pc = "setInput", !.inputs = @ + 1],
               local |-> local, pass |-> prev]
    ELSE IF sp \notin fsSet
    THEN [r |-> [r EXCEPT !.pc = "setDialog", !.dialogs = @ + 1, !.shown = @ + 1,
                          !.confirmed = <<>>],
          local |-> local, pass |-> prev]
    ELSE DefLoop([r EXCEPT !.confirmed = <<sp>>], sp, dn, local, prev)

-----------------------------------------------------------------------------
(* saveEnvironment *)

\* saveEnvironment commands invoked in one behaviour
MaxSaves == 2

\* the remote paths a user saves to, and the characters of each
SavePaths == {"p", "pp", "p/e", "q"}

PathChars(path) ==
    CASE path = "p" -> <<"/", "p">>
      [] path = "pp" -> <<"/", "p", "p">>
      [] path = "p/e" -> <<"/", "p", "/", "e">>
      [] path = "q" -> <<"/", "q">>
      [] OTHER -> <<>>

\* a.startsWith(b) of two strings given by their characters
StartsWith(a, b) == Len(b) <= Len(a) /\ SubSeq(a, 1, Len(b)) = b

\* directory inner lies below directory outer
Contains(outer, inner) ==
    StartsWith(PathChars(inner), PathChars(outer) \o <<"/">>)

\* a directory of the remote share: whether it exists and the names in it
Dir(exists, items) == [exists |-> exists, items |-> items]
NoDirs == [path \in SavePaths |-> Dir(FALSE, {})]

\* fse.ensureDir(path) once it has completed: the directory and the
\* directories above it exist, each holding the one below
ensureDir(d, path) ==
    [q \in SavePaths |->
        IF q = path THEN Dir(TRUE, d[q].items)
        ELSE IF Contains(q, path) THEN Dir(TRUE, d[q].items \cup {path})
        ELSE d[q]]

\* the directories as the readdirSync calls of saveEnvironment find them:
\* cs and ce say whether the ensureDir started for the settings and for the
\* extension directory has completed by then
Seen(d, sp, ep, cs, ce) ==
    [q \in SavePaths |->
        IF cs /\ ce THEN ensureDir(ensureDir(d, sp), ep)[q]
        ELSE IF cs THEN ensureDir(d, sp)[q]
        ELSE IF ce THEN ensureDir(d, ep)[q]
        ELSE d[q]]

\* the nesting test of saveEnvironment
PathsNested(sp, ep) ==
    /\ sp # ep
    /\ \/ StartsWith(PathChars(sp), PathChars(ep))
       \/ StartsWith(PathChars(ep), PathChars(sp))

\* items, as saveEnvironment counts them
ItemCount(seen, sp, ep) ==
    Cardinality(seen[sp].items) + Cardinality(seen[ep].items)
        - (IF PathsNested(sp, ep) THEN 1 ELSE 0)

\* the record of a run of saveEnvironment: sp, ep the paths it used,
\* setItems, extItems what readdirSync returned, wrote whether the remote
\* settings.json was written, copied the extensions copied, copyErr the error
\* copyEnvToRemote threw, disabled whether palEnableSaveEnv = false was
\* written, saved whether 'Current environment saved.' was shown
IdleSave ==
    [pc |-> "idle", n |-> 0, result |-> "", sp |-> "", ep |-> "",
     checked |-> FALSE, setItems |-> {}, extItems |-> {}, wrote |-> FALSE,
     copied |-> {}, copyErr |-> "", disabled |-> FALSE, saved |-> FALSE]

NewSave(sv) == [IdleSave EXCEPT !.pc = "running", !.n = sv.n + 1]

FinishSave(sv, result) == [sv EXCEPT !.pc = "done", !.result = result]

\* what a step of saveEnvironment leaves
Left(sv, d, remote, local) ==
    [save |-> sv, dirs |-> d, remote |-> remote, local |-> local]

\* copyEnvToRemote: [err, wrote, remote, copied]
copyEnvToRemote(local, remote, exts) ==
    LET read == readSettingsFile(local, TRUE)
    IN  IF read.err # ""
        THEN [err |-> read.err, wrote |-> FALSE, remote |-> remote, copied |-> {}]
        ELSE [err |-> "", wrote |-> TRUE,
              remote |-> File("ok", JsonRoundTrip(read.val)),
              copied |-> DOMAIN exts]

\* the directories once the files and folders of c are written
WithCopies(d, sp, ep, c) ==
    [q \in SavePaths |->
        Dir(d[q].exists,
            d[q].items \cup (IF c.wrote /\ q = sp THEN {"settings.json"} ELSE {})
                       \cup (IF q = ep THEN c.copied ELSE {}))]

\* saveEnvironment once updateSettings({palEnableSaveEnv: false}) returned or
\* threw w: the message is shown
Disabled(sv, d, remote, w) ==
    Left(FinishSave([sv EXCEPT !.disabled = w.err = "", !.saved = TRUE], "saved"),
         d, remote, w.file)

\* saveEnvironment once copyEnvToRemote returned or threw c
Copied(sv, d, local, c) ==
    Disabled([sv EXCEPT !.wrote = c.wrote, !.copied = c.copied, !.copyErr = c.err],
             WithCopies(d, sv.sp, sv.ep, c), c.remote,
             updateSettings(local, Obj(<<Entry(KeyPalSave, Bool(FALSE))>>)))

\* saveEnvironment once the items were counted
Counted(sv, items, d, local, remote, exts) ==
    IF items > 0 THEN Left(FinishSave(sv, "refused"), d, remote, local)
    ELSE Copied(sv, d, local, copyEnvToRemote(local, remote, exts))

\* saveEnvironment once both readdirSync calls returned what seen holds
Listed(sv, seen, d, local, remote, exts) ==
    Counted([sv EXCEPT !.checked = TRUE, !.setItems = seen[sv.sp].items,
                       !.extItems = seen[sv.ep].items],
            ItemCount(seen, sv.sp, sv.ep), d, local, remote, exts)

\* saveEnvironment from its existsSync tests on, with both paths set: a
\* readdirSync of a directory that does not exist yet throws
SaveBody(sv, seen, d, local, remote, exts) ==
    IF ~seen[sv.sp].exists \/ ~seen[sv.ep].exists
    THEN Left(FinishSave(sv, "failed"), d, remote, local)
    ELSE Listed(sv, seen, d, local, remote, exts)

\* saveEnvironment from the test of the remote settings path on
SaveFromSettingsPath(sv, sp, ep, d, cs, ce, local, remote, exts) ==
    IF sp = ""
    THEN Left([sv EXCEPT !.pc = "setInput"], d, remote, local)
    ELSE SaveBody([sv EXCEPT !.sp = sp, !.ep = ep], Seen(d, sp, ep, cs, ce),
                  ensureDir(ensureDir(d, sp), ep), local, remote, exts)

\* saveEnvironment from its start
SaveFromStart(sv, sp, ep, d, cs, ce, local, remote, exts) ==
    IF ep = ""
    THEN Left([sv EXCEPT !.pc = "extInput"], d, remote, local)
    ELSE SaveFromSettingsPath(sv, sp, ep, d, cs, ce, local, remote, exts)

-----------------------------------------------------------------------------
(* Actions *)

Environment == <<remoteFile, defaultsFile, fsExt, fsSet, fsDef, installed, remoteExts>>
SettingsState == <<localFile, setPath, defName, pass>>

\* the choices of the dialog shown when a remote path does not exist;
\* "dismissed" is the dialog closed without a choice
PathChoices == {"Try Again", "Reenter Path", "Ignore", "dismissed"}
DefChoices == {"Try Again", "Reenter Filename", "Disable", "Ignore", "dismissed"}

\* reenter = true on 'Try Again' as well
ChoiceReentersOrRetries(choice) == choice \in {"Try Again", "Reenter Path"}

\* case pathReenterOption: reenter = true
ChoiceReenters(choice) == choice = "Reenter Path"
\* the switch without its default case: only 'Ignore' ends the run
ChoiceContinuesUnlessIgnored(choice) == choice # "Ignore"

\* this._remoteDefaultSettingsFilename = null on 'Ignore' only
ChoiceClearsOnIgnore(choice) == choice = "Ignore"

\* the choices of the default-settings dialog that set
\* this._remoteDefaultSettingsFilename to null
ChoiceClears(choice) == choice \in {"Disable", "Ignore"}

\* the choices on which the then-callback returns true
ChoiceContinues(choice) == choice \in {"Try Again", "Reenter Path"}

\* fetchExtensions of process p suspended or ended as o says
ExtSuspended(p, o) ==
    /\ run' = [run EXCEPT ![p] = o.r]
    /\ localExtVersions' = o.versions
    /\ extPass' = o.extPass

\* fetchSettings of process p suspended or ended as o says
SetSuspended(p, o) ==
    /\ run' = [run EXCEPT ![p] = o.r]
    /\ localFile' = o.local
    /\ pass' = o.pass

\* a call of fetchExtensions(prompt) by process p, up to its first suspension
FetchExtensions(p, prompt) ==
    /\ ExtSuspended(p, ExtLoop(NewRun(run[p], "extensions", prompt, extPath # ""),
                               FALSE, extPath, localExtVersions))
    /\ UNCHANGED <<extPath, SettingsState, Environment, dirs, save>>

\* getRemoteExtensionPath resumed by the answer to its input box, and
\* fetchExtensions up to its next suspension
ExtInput(p) ==
    /\ run[p].pc = "extInput"
    /\ \E path \in Paths \cup {""} :
        LET w == updateSettings(localFile, Obj(<<Entry(KeyExtPath, Str(path))>>))
        IN  IF path = ""
            THEN /\ run' = [run EXCEPT ![p] = Finish(run[p], "abandoned")]
                 /\ UNCHANGED <<extPath, localFile, localExtVersions, extPass>>
            ELSE IF w.err # ""
            THEN /\ run' = [run EXCEPT ![p] = Finish(run[p], w.err)]
                 /\ extPath' = path
                 /\ UNCHANGED <<localFile, localExtVersions, extPass>>
            ELSE /\ ExtSuspended(p, ExtLoop([run[p] EXCEPT !.wrote = TRUE], FALSE,
                                            path, localExtVersions))
                 /\ extPath' = path
                 /\ localFile' = w.file
    /\ UNCHANGED <<setPath, defName, pass, Environment, dirs, save>>

\* fetchExtensions resumed by the choice made in its error dialog
ExtDialog(p) ==
    /\ run[p].pc = "extDialog"
    /\ \E choice \in PathChoices :
        LET r == [run[p] EXCEPT !.choice = choice,
                                !.reenters = IF choice = "Reenter Path" THEN @ + 1 ELSE @]
        IN  IF ChoiceContinues(choice)
            THEN /\ run[p].shown < MaxDialogs
                 /\ ExtSuspended(p, ExtLoop(r, ChoiceReenters(choice), extPath,
                                            localExtVersions))
            ELSE /\ run' = [run EXCEPT ![p] = Finish(r, "abandoned")]
                 /\ UNCHANGED <<localExtVersions, extPass>>
    /\ UNCHANGED <<extPath, SettingsState, Environment, dirs, save>>

\* a call of fetchSettings(prompt) by process p, up to its first suspension
FetchSettings(p, prompt) ==
    /\ SetSuspended(p, SetLoop(NewRun(run[p], "settings", prompt, setPath # ""),
                               FALSE, setPath, defName, localFile, pass))
    /\ UNCHANGED <<extPath, setPath, defName, localExtVersions, extPass, Environment, dirs, save>>

\* getRemoteSettingsPath resumed by the answer to its input box, and
\* fetchSettings up to its next suspension
SetInput(p) ==
    /\ run[p].pc = "setInput"
    /\ \E path \in Paths \cup {""} :
        LET w == updateSettings(localFile, Obj(<<Entry(KeySetPath, Str(path))>>))
        IN  IF path = ""
            THEN /\ run' = [run EXCEPT ![p] = Finish(run[p], "abandoned")]
                 /\ UNCHANGED <<setPath, localFile, pass>>
            ELSE IF w.err # ""
            THEN /\ run' = [run EXCEPT ![p] = Finish(run[p], w.err)]
                 /\ setPath' = path
                 /\ UNCHANGED <<localFile, pass>>
            ELSE /\ SetSuspended(p, SetLoop([run[p] EXCEPT !.wrote = TRUE], FALSE,
                                            path, defName, w.file, pass))
                 /\ setPath' = path
    /\ UNCHANGED <<extPath, defName, localExtVersions, extPass, Environment, dirs, save>>

\* fetchSettings resumed by the choice made in the dialog of its first loop
SetDialog(p) ==
    /\ run[p].pc = "setDialog"
    /\ \E choice \in PathChoices :
        LET r == [run[p] EXCEPT !.choice = choice,
                                !.reenters = IF choice = "Reenter Path" THEN @ + 1 ELSE @]
        IN  IF ChoiceContinues(choice)
            THEN /\ run[p].shown < MaxDialogs
                 /\ SetSuspended(p, SetLoop(r, ChoiceReenters(choice), setPath,
                                            defName, localFile, pass))
            ELSE /\ run' = [run EXCEPT ![p] = Finish(r, "abandoned")]
                 /\ UNCHANGED <<localFile, pass>>
    /\ UNCHANGED <<extPath, setPath, defName, localExtVersions, extPass, Environment, dirs, save>>

\* fetchSettings resumed by the choice made in the default-settings dialog
DefDialog(p) ==
    /\ run[p].pc = "defDialog"
    /\ \E choice \in DefChoices :
        LET w == updateSettings(localFile, Obj(<<Entry(KeyDefName, Null)>>))
            saved == IF w.err = "" THEN w.file ELSE localFile
            r == [run[p] EXCEPT !.choice = choice]
            dn == IF ChoiceClears(choice) THEN "" ELSE defName
        IN  /\ choice \in {"Try Again", "Reenter Filename"} => run[p].shown < MaxDialogs
            /\ SetSuspended(p,
                   CASE choice = "Try Again" ->
                        DefLoop(r, setPath, defName, localFile, pass)
                   [] choice = "Reenter Filename" ->
                        [r |-> [r EXCEPT !.pc = "defInput", !.inputs = @ + 1,
                                         !.reenters = @ + 1],
                         local |-> localFile, pass |-> pass]
                   [] choice = "Disable" ->
                        ComparePass([r EXCEPT !.wrote = @ \/ w.err = ""],
                                    setPath, dn, saved, pass)
                   [] OTHER ->
                        ComparePass(r, setPath, dn, localFile, pass))
            /\ defName' = dn
    /\ UNCHANGED <<extPath, setPath, localExtVersions, extPass, Environment, dirs, save>>

\* getDefaultSettingsFilename resumed by the answer to its input box, and
\* fetchSettings up to its next suspension
DefInput(p) ==
    /\ run[p].pc = "defInput"
    /\ \E name \in Names \cup {""} :
        LET w == updateSettings(localFile, Obj(<<Entry(KeyDefName, Str(name))>>))
        IN  IF name # "" /\ w.err # ""
            THEN /\ run' = [run EXCEPT ![p] = Finish(run[p], w.err)]
                 /\ defName' = name
                 /\ UNCHANGED <<localFile, pass>>
            ELSE /\ SetSuspended(p,
                        IF name = ""
                        THEN DefLoop(run[p], setPath, defName, localFile, pass)
                        ELSE DefLoop([run[p] EXCEPT !.wrote = TRUE], setPath, name,
                                     w.file, pass))
                 /\ defName' = IF name = "" THEN defName ELSE name
    /\ UNCHANGED <<extPath, setPath, localExtVersions, extPass, Environment, dirs, save>>

\* activate: fetchExtensions(false), and when it has returned fetchSettings(false)
StartupExtensions ==
    /\ run["startup"].pc = "idle"
    /\ FetchExtensions("startup", FALSE)

StartupSettings ==
    /\ run["startup"].pc = "done"
    /\ run["startup"].op = "extensions"
    /\ FetchSettings("startup", FALSE)

\* the commands fetchUserEnv.extensions and fetchUserEnv.settings
CommandExtensions ==
    /\ run["command"].pc \in {"idle", "done"}
    /\ run["command"].n < MaxCommands
    /\ FetchExtensions("command", TRUE)

CommandSettings ==
    /\ run["command"].pc \in {"idle", "done"}
    /\ run["command"].n < MaxCommands
    /\ FetchSettings("command", TRUE)

\* the remote share becomes reachable
MountShare ==
    /\ <<fsExt, fsSet, fsDef>> # <<{"p"}, {"p"}, {<<"p", "d">>}>>
    /\ fsExt' = {"p"} /\ fsSet' = {"p"} /\ fsDef' = {<<"p", "d">>}
    /\ UNCHANGED <<localFile, remoteFile, defaultsFile, extPath, setPath, defName,
                   localExtVersions, installed, remoteExts, run, pass, extPass, dirs, save>>

\* the user installs, updates or uninstalls an extension
InstalledChange ==
    /\ \E inst \in {NoVersions} \cup {[id \in ExtIds |-> v] : v \in Versions} :
        /\ inst # installed
        /\ installed' = inst
    /\ UNCHANGED <<localFile, remoteFile, defaultsFile, fsExt, fsSet, fsDef, extPath,
                   setPath, defName, localExtVersions, remoteExts, run, pass, extPass, dirs, save>>


\* saveEnvironment suspended or ended as o says
SaveSuspended(o) ==
    /\ save' = o.save
    /\ dirs' = o.dirs
    /\ remoteFile' = o.remote
    /\ localFile' = o.local
    /\ fsExt' = {q \in SavePaths : o.dirs[q].exists}
    /\ fsSet' = {q \in SavePaths : "settings.json" \in o.dirs[q].items}

\* the command fetchUserEnv.saveEnvironment, up to its first suspension
SaveEnvironment ==
    /\ save.pc \in {"idle", "done"}
    /\ save.n < MaxSaves
    /\ \E cs, ce \in BOOLEAN :
        SaveSuspended(SaveFromStart(NewSave(save), setPath, extPath, dirs, cs, ce,
                                    localFile, remoteFile, installed))
    /\ UNCHANGED <<defaultsFile, fsDef, extPath, setPath, defName, localExtVersions,
                   installed, remoteExts, run, pass, extPass>>

\* getRemoteExtensionPath resumed by the answer to its input box, and
\* saveEnvironment up to its next suspension
SaveExtInput ==
    /\ save.pc = "extInput"
    /\ \E path \in SavePaths \cup {""}, cs, ce \in BOOLEAN :
        LET w == updateSettings(localFile, Obj(<<Entry(KeyExtPath, Str(path))>>))
        IN  IF path = ""
            THEN /\ SaveSuspended(Left(FinishSave(save, "abandoned"), dirs,
                                       remoteFile, localFile))
                 /\ UNCHANGED extPath
            ELSE IF w.err # ""
            THEN /\ SaveSuspended(Left(FinishSave(save, w.err), dirs, remoteFile,
                                       localFile))
                 /\ extPath' = path
            ELSE /\ SaveSuspended(SaveFromSettingsPath(save, setPath, path, dirs, cs, ce,
                                                       w.file, remoteFile, installed))
                 /\ extPath' = path
    /\ UNCHANGED <<defaultsFile, fsDef, setPath, defName, localExtVersions,
                   installed, remoteExts, run, pass, extPass>>

\* getRemoteSettingsPath resumed by the answer to its input box, and
\* saveEnvironment to its end
SaveSetInput ==
    /\ save.pc = "setInput"
    /\ \E path \in SavePaths \cup {""}, cs, ce \in BOOLEAN :
        LET w == updateSettings(localFile, Obj(<<Entry(KeySetPath, Str(path))>>))
        IN  IF path = ""
            THEN /\ SaveSuspended(Left(FinishSave(save, "abandoned"), dirs,
                                       remoteFile, localFile))
                 /\ UNCHANGED setPath
            ELSE IF w.err # ""
            THEN /\ SaveSuspended(Left(FinishSave(save, w.err), dirs, remoteFile,
                                       localFile))
                 /\ setPath' = path
            ELSE /\ SaveSuspended(SaveFromSettingsPath(save, path, extPath, dirs, cs, ce,
                                                       w.file, remoteFile, installed))
                 /\ setPath' = path
    /\ UNCHANGED <<defaultsFile, fsDef, extPath, defName, localExtVersions,
                   installed, remoteExts, run, pass, extPass>>


-----------------------------------------------------------------------------
(* The documents of the initial states *)

Numbers == {Num(i) : i \in 1..MaxNum}
Scalars == Numbers \cup {Null, Str("x")}
Leaves == Scalars \cup {EmptyObj, EmptyArr}
NestKeys == {"a", "b"}

Obj1(vals) == {Obj(<<Entry(k, v)>>) : k \in NestKeys, v \in vals}
Obj2(vals1, vals2) ==
    {Obj(<<Entry(k[1], v1), Entry(k[2], v2)>>) :
        k \in {<<"a", "b">>, <<"b", "a">>}, v1 \in vals1, v2 \in vals2}
Arr1(vals) == {Arr(<<v>>) : v \in vals}

\* values nested two levels deep
Deep ==
    Obj1({Obj(<<Entry("a", n)>>) : n \in Numbers} \cup {Arr(<<Num(1)>>)})
    \cup Obj2(Numbers, {Obj(<<Entry("a", Num(1))>>)})
    \cup Obj2({Obj(<<Entry("a", Num(1))>>)}, Numbers)

RichValues ==
    Leaves \cup Obj1(Leaves) \cup Arr1(Leaves)
    \cup Obj2(Numbers \cup {Null}, Numbers \cup {Null}) \cup Deep

\* a document: the entries named, those with an undefined value left out
Doc(entries) == Obj(SelectSeq(entries, LAMBDA e : e.v.t # "undefined"))

\* the part of an initial state the settings comparison does not read
InitRest ==
    /\ fsExt = {}
    /\ extPath = ""
    /\ localExtVersions = NoVersions
    /\ installed = NoVersions
    /\ remoteExts = <<>>
    /\ run = [p \in Procs |-> IdleRun]
    /\ pass = NoPass
    /\ extPass = NoExtPass
    /\ dirs = NoDirs
    /\ save = IdleSave

\* the local and remote values of key "m" and the remote values of two of
\* the extension's own keys
OtherKeys ==
    {<<Undefined, Undefined, Undefined, Undefined>>,
     <<Num(1), Num(2), Undefined, Undefined>>,
     <<Undefined, Num(2), Str("q"), Undefined>>,
     <<Num(1), Undefined, Undefined, Bool(TRUE)>>,
     <<Num(1), Num(1), Str("p"), Undefined>>,
     <<Undefined, Undefined, Str("p"), Undefined>>}

\* local and remote documents that differ in every way in one key,
\* no default settings configured
InitCompare ==
    /\ \E lk, rk \in RichValues \cup {Undefined}, other \in OtherKeys :
           /\ localFile = File("ok", Doc(<<Entry(KeySetPath, Str("p")),
                                           Entry("k", lk), Entry("m", other[1])>>))
           /\ remoteFile = File("ok", Doc(<<Entry(KeySetPath, other[3]),
                                            Entry("k", rk), Entry("m", other[2]),
                                            Entry(KeyPalSave, other[4])>>))
    /\ defaultsFile = MissingFile
    /\ setPath = "p" /\ fsSet = {"p"}
    /\ defName = "" /\ fsDef = {}
    /\ InitRest

\* a default-settings file configured
InitDefaults ==
    /\ \E lk \in Leaves \cup {Undefined}, lm \in {Undefined, Num(1)} :
           localFile = File("ok", Doc(<<Entry(KeySetPath, Str("p")),
                                        Entry(KeyDefName, Str("d")),
                                        Entry("k", lk), Entry("m", lm)>>))
    /\ \E rk \in {Undefined, Num(1), Num(2), Null, EmptyObj} :
           remoteFile = File("ok", Doc(<<Entry("k", rk)>>))
    /\ \E dk \in Leaves \cup {Undefined}, dm \in {Undefined, Num(1), Num(2)},
          dp \in {Undefined, Bool(TRUE)} :
           defaultsFile = File("ok", Doc(<<Entry("m", dm), Entry("k", dk),
                                           Entry(KeyPalSave, dp)>>))
    /\ setPath = "p" /\ fsSet = {"p"}
    /\ defName = "d" /\ fsDef = {<<"p", "d">>}
    /\ InitRest

InitSettings == InitCompare \/ InitDefaults

NextSettings == SettingsPass

SpecSettings == InitSettings /\ [][NextSettings]_vars


-----------------------------------------------------------------------------
(* The runs of the extension: the startup run and the commands *)

\* the local settings file that holds the configuration ep, sp, dn
ConfigDoc(ep, sp, dn) ==
    Doc(<<Entry(KeyExtPath, IF ep = "" THEN Undefined ELSE Str(ep)),
          Entry(KeySetPath, IF sp = "" THEN Undefined ELSE Str(sp)),
          Entry(KeyDefName, IF dn = "" THEN Undefined ELSE Str(dn)),
          Entry("k", Num(1))>>)

InitRuns ==
    /\ run = [p \in Procs |-> IdleRun]
    /\ pass = NoPass
    /\ extPass = NoExtPass
    /\ localExtVersions = NoVersions
    /\ dirs = NoDirs
    /\ save = IdleSave

Init ==
    /\ extPath \in {"", "p"}
    /\ setPath \in {"", "p"}
    /\ defName \in {"", "d"}
    /\ \E bad \in IF <<extPath, setPath, defName>> = <<"p", "p", "d">>
                   THEN {"", "local", "remote", "defaults"} ELSE {""} :
        /\ localFile = IF bad = "local" THEN BadFile
                       ELSE File("ok", ConfigDoc(extPath, setPath, defName))
        /\ remoteFile = IF bad = "remote" THEN BadFile
                        ELSE File("ok", Doc(<<Entry("k", Num(2))>>))
        /\ defaultsFile = IF bad = "defaults" THEN BadFile
                          ELSE File("ok", Doc(<<Entry("m", Num(1))>>))
    /\ \E share \in {<<{}, {}, {}>>, <<{"p"}, {"p"}, {}>>, <<{"p"}, {"p"}, {<<"p", "d">>}>>} :
        /\ fsExt = share[1]
        /\ fsSet = share[2]
        /\ fsDef = share[3]
    /\ installed = [id \in ExtIds |-> Version(1, 0, 0)]
    /\ remoteExts = <<Folder("ok", "pub.ext", Version(1, 1, 0))>>
    /\ InitRuns

Next ==
    \/ StartupExtensions
    \/ StartupSettings
    \/ CommandExtensions
    \/ CommandSettings
    \/ \E p \in Procs : ExtInput(p)
    \/ \E p \in Procs : ExtDialog(p)
    \/ \E p \in Procs : SetInput(p)
    \/ \E p \in Procs : SetDialog(p)
    \/ \E p \in Procs : DefDialog(p)
    \/ \E p \in Procs : DefInput(p)
    \/ MountShare

Spec == Init /\ [][Next]_vars

\* the folders a remote extension directory may hold
Folders ==
    {Folder("none", "", Version(0, 0, 0)), Folder("bad", "", Version(0, 0, 0))}
    \cup {Folder("ok", id, v) : id \in ExtIds, v \in Versions}

\* folder lists of the model have at most MaxFolders folders
MaxFolders == 2
FolderLists == UNION {[1..n -> Folders] : n \in 0..MaxFolders}

\* the extension passes of a session: no settings path is configured
InitExt ==
    /\ extPath \in {"", "p"}
    /\ setPath = ""
    /\ defName = ""
    /\ localFile = File("ok", ConfigDoc(extPath, setPath, defName))
    /\ remoteFile = MissingFile
    /\ defaultsFile = MissingFile
    /\ fsExt \in {{}, {"p"}}
    /\ fsSet = {}
    /\ fsDef = {}
    /\ installed \in {NoVersions} \cup {[id \in ExtIds |-> v] : v \in Versions}
    /\ remoteExts \in FolderLists
    /\ InitRuns

NextExt ==
    \/ StartupExtensions
    \/ StartupSettings
    \/ CommandExtensions
    \/ \E p \in Procs : ExtInput(p)
    \/ \E p \in Procs : ExtDialog(p)
    \/ MountShare
    \/ InstalledChange

SpecExt == InitExt /\ [][NextExt]_vars


-----------------------------------------------------------------------------
(* Properties of the settings comparison (SpecSettings) *)

\* equality of two JSON values, the order of the keys of a mapping ignored
RECURSIVE StructEq(_, _)
StructEq(v, w) ==
    IF v.t # w.t THEN FALSE
    ELSE IF v.t \in {"object", "array"}
    THEN /\ KeySet(v) = KeySet(w)
         /\ \A k \in KeySet(v) : StructEq(Get(v, k), Get(w, k))
    ELSE v = w

\* the keys of a delta and the delta holding the whole value of doc at k
HasWhole(delta, doc, k) == HasOwnProperty(delta, k) /\ Get(delta, k) = Get(doc, k)

\* a settings key that is not one of the extension's own
Ordinary(k) == ~StartsWithFetchUserEnv(k)

\* the remote comparison of the last pass ran to its end
RemoteReturned == pass.n >= 1 /\ pass.remoteDone /\ pass.err = ""

\* C1: every remote key also present locally whose remote value differs
\* anywhere from the local value is in the delta of compareRemoteSettings
\* with the entire remote value.
C1_DifferenceAnywhereInDelta ==
    pass.n >= 1 /\ pass.remoteDone =>
        \A k \in KeySet(remoteFile.doc) \cap KeySet(pass.mid.doc) :
            Ordinary(k) /\ ~StructEq(Get(remoteFile.doc, k), Get(pass.mid.doc, k))
                => pass.err = "" /\ HasWhole(pass.remDelta, remoteFile.doc, k)

\* C2: comparing a settings document with itself gives an empty delta and
\* writes nothing.
C2_SelfCompareEmpty ==
    pass.n >= 1 /\ pass.before.doc = remoteFile.doc =>
        /\ pass.err = ""
        /\ pass.remDelta = EmptyObj
        /\ localFile = pass.before

C2_Witness ==
    /\ pass.n >= 1
    /\ pass.before.doc = remoteFile.doc
    /\ Get(remoteFile.doc, "k").t = "object"
    /\ \E j \in NestKeys : Get(Get(remoteFile.doc, "k"), j).t \in {"object", "array", "null"}

\* C3: once the delta of a comparison was merged into the local document, the
\* next comparison against the same remote document gives an empty delta and
\* writes nothing.
C3_SecondPassEmpty ==
    pass.n >= 2 /\ pass.prevErr = "" =>
        /\ pass.err = ""
        /\ pass.remDelta = EmptyObj
        /\ pass.defDelta = EmptyObj
        /\ localFile = pass.before

C3_Witness ==
    /\ pass.n >= 2
    /\ pass.prevErr = ""
    /\ Len(ForIn(pass.prevDelta)) >= 2
    /\ pass.remDelta = EmptyObj

\* C4 as claimed: every key of the remote document that the local document
\* lacks is in the delta with the entire remote value.
C4_EveryAbsentKeyInDelta ==
    RemoteReturned =>
        \A k \in KeySet(remoteFile.doc) \ KeySet(pass.mid.doc) :
            HasWhole(pass.remDelta, remoteFile.doc, k)

\* C4 as amended: every key of the remote document that does not begin with
\* fetchUserEnv and that the local document lacks is in the delta with the
\* entire remote value, whatever the value.
C4_OrdinaryAbsentKeyInDelta ==
    RemoteReturned =>
        \A k \in KeySet(remoteFile.doc) \ KeySet(pass.mid.doc) :
            Ordinary(k) => HasWhole(pass.remDelta, remoteFile.doc, k)

C4_Witness ==
    /\ RemoteReturned
    /\ ~HasOwnProperty(pass.mid.doc, "k")
    /\ Get(remoteFile.doc, "k") \in {Null, EmptyObj, EmptyArr}
    /\ HasWhole(pass.remDelta, remoteFile.doc, "k")

\* the defaults merge of the last pass ran to its end
DefaultsMerged == pass.n >= 1 /\ defName # "" /\ pass.remoteDone

\* C5 as claimed: the delta of the defaults merge is exactly the keys of the
\* defaults document that the local document lacks, each with the defaults
\* value.
C5_DefaultsDeltaExact ==
    DefaultsMerged =>
        /\ KeySet(pass.defDelta) = KeySet(defaultsFile.doc) \ KeySet(pass.before.doc)
        /\ \A k \in KeySet(pass.defDelta) : Get(pass.defDelta, k) = Get(defaultsFile.doc, k)

\* C5 as amended: the delta of the defaults merge is exactly the keys of the
\* defaults document that do not begin with fetchUserEnv and that the local
\* document lacks, each with the defaults value; a key present in both is
\* never in it.
C5_OrdinaryDefaultsDeltaExact ==
    DefaultsMerged =>
        /\ KeySet(pass.defDelta) =
              {k \in KeySet(defaultsFile.doc) : Ordinary(k)} \ KeySet(pass.before.doc)
        /\ \A k \in KeySet(pass.defDelta) : Get(pass.defDelta, k) = Get(defaultsFile.doc, k)

C5_Witness ==
    /\ DefaultsMerged
    /\ HasOwnProperty(pass.defDelta, "m")
    /\ HasOwnProperty(pass.before.doc, "k")
    /\ HasOwnProperty(defaultsFile.doc, "k")
    /\ Get(defaultsFile.doc, "k") # Get(pass.before.doc, "k")

\* C6: applying a delta deletes no key of the local document and leaves
\* every key that is not in the delta with its value, the fetchUserEnv keys
\* included.
C6_UpdateKeepsOtherKeys ==
    pass.n >= 1 =>
        \A k \in KeySet(pass.before.doc) :
            /\ HasOwnProperty(localFile.doc, k)
            /\ k \notin KeySet(pass.defDelta) \cup KeySet(pass.remDelta)
                   => Get(localFile.doc, k) = Get(pass.before.doc, k)

C6_Witness ==
    /\ pass.n >= 1
    /\ HasOwnProperty(pass.remDelta, "k")
    /\ HasOwnProperty(pass.before.doc, "m")
    /\ ~HasOwnProperty(pass.remDelta, "m")
    /\ HasWhole(localFile.doc, pass.before.doc, KeySetPath)
    /\ localFile # pass.before


-----------------------------------------------------------------------------
(* Properties of the extension pass (SpecExt) *)

\* C7: in an extension pass a remote candidate is copied if and only if its
\* directory has package metadata and its id has no installed version or an
\* installed version that compares less than the candidate's
C7_CopiedIffNewer ==
    extPass.n >= 1 =>
        \A i \in 1..Len(remoteExts) :
            i \in extPass.copied <=>
                /\ remoteExts[i].meta = "ok"
                /\ \/ remoteExts[i].id \notin DOMAIN extPass.installedAt
                   \/ compareVer(extPass.installedAt[remoteExts[i].id],
                                 remoteExts[i].version) < 0

-----------------------------------------------------------------------------
(* Properties of the runs (Spec) *)

Started(p) == run[p].pc # "idle"
Ended(p) == run[p].pc = "done"

\* C8: a run started with prompt = false and no configured remote path ends
\* abandoned, having shown no input box and no dialog, written no setting and
\* copied no extension
C8_UnconfiguredRunIsSilent ==
    \A p \in Procs :
        Started(p) /\ ~run[p].prompt /\ ~run[p].configured =>
            /\ Ended(p)
            /\ run[p].result = "abandoned"
            /\ run[p].inputs = 0
            /\ run[p].dialogs = 0
            /\ ~run[p].wrote
            /\ ~run[p].copied

C8_Witness ==
    /\ Ended("startup")
    /\ run["startup"].op = "settings"
    /\ ~run["startup"].prompt
    /\ ~run["startup"].configured
    /\ run["startup"].result = "abandoned"
    /\ setPath = ""

\* C9 as stated: a run started with prompt = false shows no error dialog with
\* choices and no input box
C9_NoPromptWhenNotInteractive ==
    \A p \in Procs :
        Started(p) /\ ~run[p].prompt => run[p].inputs = 0 /\ run[p].dialogs = 0

\* C9 amended: a run started with prompt = false shows an error dialog only
\* if a remote path was configured when it started, and shows an input box
\* only after the user chose to re-enter the path or filename in such a dialog
C9_PromptOnlyAfterFailedCheck ==
    \A p \in Procs :
        Started(p) /\ ~run[p].prompt =>
            /\ run[p].dialogs > 0 => run[p].configured
            /\ run[p].reenters <= run[p].dialogs
            /\ run[p].inputs <= run[p].reenters

C9_Witness ==
    \E p \in Procs :
        /\ ~run[p].prompt
        /\ run[p].configured
        /\ run[p].dialogs > 0
        /\ run[p].inputs > 0
        /\ Ended(p)

\* C10: when a run of fetchSettings ends by reporting a parse error, the local
\* settings document is what it was when the run started
C10_ParseErrorLeavesLocalUntouched ==
    \A p \in Procs :
        Ended(p) /\ run[p].op = "settings" /\ run[p].result = "JSONError" =>
            localFile = run[p].startLocal

\* C11: when the defaults merge of a settings pass fails (the defaults
\* document is unreadable or malformed, the local and remote documents being
\* readable), the remote comparison of that pass is still made and its delta
\* is applied
C11_RemoteComparedAfterDefaultsFailure ==
    /\ pass.n >= 1
    /\ pass.err = "JSONError"
    /\ pass.before.st = "ok"
    /\ remoteFile.st = "ok"
    => /\ pass.remoteDone
       /\ HasWhole(pass.remDelta, remoteFile.doc, "k")

\* no run of another process has started
Alone(p) == \A q \in Procs \ {p} : run[q].pc = "idle"

\* C12: in a run with no other run in progress, installNewExtensions or
\* compareSettings is executed only with the remote path whose most recent
\* existence check succeeded; a run that ends abandoned has made no copy and
\* no settings comparison
C12_SyncOnlyAfterConfirmedPath ==
    \A p \in Procs :
        /\ Alone(p) /\ run[p].synced # <<>> =>
              /\ run[p].synced = run[p].confirmed
              /\ run[p].op = "extensions" => run[p].synced[1] \in fsExt
              /\ run[p].op = "settings" => run[p].synced[1] \in fsSet
        /\ run[p].result = "abandoned" => run[p].synced = <<>> /\ ~run[p].copied

C12_Witness ==
    /\ Alone("command")
    /\ run["command"].op = "settings"
    /\ run["command"].dialogs > 0
    /\ run["command"].inputs > 0
    /\ run["command"].synced = <<"p">>
    /\ run["command"].result = "done"

\* process p makes its choice in the dialog shown after a failed existence
\* check of a remote path
PathDialogStep(p) == run[p].pc \in {"extDialog", "setDialog"} /\ run'[p] # run[p]

\* the path the dialog of process p is about, and whether it exists now
DialogPath(p) == IF run[p].pc = "extDialog" THEN extPath ELSE setPath
DialogPathExists(p) ==
    IF run[p].pc = "extDialog" THEN extPath \in fsExt ELSE setPath \in fsSet

\* C13: after a failed existence check of the remote path the choice decides
\* the next step: 'Try Again' checks the same path again with no input box,
\* 'Reenter Path' shows the input box before any other check, 'Ignore' or
\* dismissing the dialog ends the run with no sync
C13_ChoiceDecidesNextStep ==
    [][\A p \in Procs :
        PathDialogStep(p) =>
            /\ extPath' = extPath /\ setPath' = setPath
            /\ run'[p].choice = "Try Again" =>
                  /\ run'[p].inputs = run[p].inputs
                  /\ IF DialogPathExists(p)
                     THEN /\ run'[p].confirmed = <<DialogPath(p)>>
                          /\ run'[p].pc # run[p].pc
                     ELSE /\ run'[p].pc = run[p].pc
                          /\ run'[p].dialogs = run[p].dialogs + 1
            /\ run'[p].choice = "Reenter Path" =>
                  /\ run'[p].pc = IF run[p].pc = "extDialog" THEN "extInput" ELSE "setInput"
                  /\ run'[p].inputs = run[p].inputs + 1
                  /\ run'[p].synced = <<>>
            /\ run'[p].choice \in {"Ignore", "dismissed"} =>
                  /\ run'[p].pc = "done"
                  /\ run'[p].result = "abandoned"
                  /\ run'[p].synced = <<>>
                  /\ ~run'[p].copied
            /\ run'[p].choice \in PathChoices]_vars

C13_Witness ==
    \E p \in Procs :
        /\ run[p].choice = "Try Again"
        /\ run[p].op = "extensions"
        /\ run[p].inputs = 0
        /\ run[p].dialogs = 1
        /\ run[p].synced # <<>>

\* process p makes its choice in the default-settings dialog
DefDialogStep(p) == run[p].pc = "defDialog" /\ run'[p] # run[p]

\* a step of process p at whose end the default-settings dialog is newly shown
ShowsDefDialog(p) ==
    /\ run'[p].pc = "defDialog"
    /\ run[p].pc # "defDialog" \/ run'[p].dialogs > run[p].dialogs

\* what 'Disable' does in the pass it is chosen in: the filename is cleared in
\* memory, the comparison is made with no defaults merge
DisableContinues(p) ==
    /\ defName' = ""
    /\ run'[p].pc = "done"
    /\ run'[p].synced = <<setPath>>
    /\ pass'.n = pass.n + 1
    /\ pass'.defDelta = EmptyObj

\* C14 as claimed: 'Disable' clears the default-settings filename in memory
\* and in the persisted configuration, the pass continues to the remote
\* comparison without defaults, and no run shows the default-settings dialog
\* once 'Disable' was chosen
C14_DisableClearsForGood ==
    [][\A p \in Procs :
        /\ DefDialogStep(p) /\ run'[p].choice = "Disable" =>
              /\ DisableContinues(p)
              /\ HasWhole(localFile'.doc, Obj(<<Entry(KeyDefName, Null)>>), KeyDefName)
              /\ pass'.remoteDone
        /\ ShowsDefDialog(p) => \A q \in Procs : run[q].choice # "Disable"]_vars

\* C14 as amended: 'Disable' clears the filename in memory and, when the local
\* settings document is readable, in the persisted configuration; the pass
\* continues to the remote comparison without defaults; while the filename is
\* cleared no run shows the default-settings dialog, and it stays cleared
\* until a filename is entered in an input box of 'Reenter Filename'
C14_DisableClearsUntilReentered ==
    [][\A p \in Procs :
        /\ DefDialogStep(p) /\ run'[p].choice = "Disable" =>
              /\ DisableContinues(p)
              /\ localFile.st # "bad" =>
                    /\ HasWhole(localFile'.doc, Obj(<<Entry(KeyDefName, Null)>>), KeyDefName)
                    /\ pass'.remoteDone
        /\ ShowsDefDialog(p) => defName' # ""
        /\ defName = "" /\ defName' # "" => \E q \in Procs : run[q].pc = "defInput"]_vars

C14_Witness ==
    \E p \in Procs :
        /\ run[p].choice = "Disable"
        /\ defName = ""
        /\ HasWhole(localFile.doc, Obj(<<Entry(KeyDefName, Null)>>), KeyDefName)
        /\ pass.remoteDone
        /\ HasOwnProperty(pass.remDelta, "k")
        /\ \E q \in Procs \ {p} : run[q].op = "settings" /\ run[q].pc = "done"
                                  /\ run[q].dialogs = 0 /\ run[q].synced # <<>>

-----------------------------------------------------------------------------
(* The version comparison: passes over one candidate whose id is installed *)

InitVersions ==
    /\ extPath = "p"
    /\ setPath = ""
    /\ defName = ""
    /\ localFile = File("ok", ConfigDoc(extPath, setPath, defName))
    /\ remoteFile = MissingFile
    /\ defaultsFile = MissingFile
    /\ fsExt = {"p"}
    /\ fsSet = {}
    /\ fsDef = {}
    /\ installed \in {[id \in ExtIds |-> v] : v \in Versions}
    /\ remoteExts \in {<<Folder("ok", id, v)>> : id \in ExtIds, v \in Versions}
    /\ InitRuns

NextVersions ==
    \/ StartupExtensions
    \/ CommandExtensions
    \/ InstalledChange

SpecVersions == InitVersions /\ [][NextVersions]_vars


\* the place of a version in the order by major, then minor, then patch
Rank(v) == (Number(v[1]) * 100 + Number(v[2])) * 100 + Number(v[3])

\* the installed version of a candidate's id paired with the candidate's
\* version, for every candidate with metadata whose id is installed
ComparedPairs ==
    {<<installed[remoteExts[i].id], remoteExts[i].version>> :
        i \in {j \in 1..Len(remoteExts) :
                  remoteExts[j].meta = "ok" /\ remoteExts[j].id \in DOMAIN installed}}

-----------------------------------------------------------------------------
(* More properties of the settings comparison (SpecSettings) *)

\* C16: every key of the delta of compareRemoteSettings is a remote key whose
\* value is structurally unequal to the local value or absent locally; a key
\* whose remote and local values are equal, the order of the keys of nested
\* mappings ignored, is not in the delta
C16_DeltaIsMinimal ==
    RemoteReturned =>
        \A k \in KeySet(pass.remDelta) :
            /\ HasWhole(pass.remDelta, remoteFile.doc, k)
            /\ \/ ~HasOwnProperty(pass.mid.doc, k)
               \/ ~StructEq(Get(remoteFile.doc, k), Get(pass.mid.doc, k))

\* a pass with a delta for m and none for k, whose remote and local values
\* are the same mapping with the keys in another order
C16_Witness ==
    /\ RemoteReturned
    /\ HasOwnProperty(pass.remDelta, "m")
    /\ ~HasOwnProperty(pass.remDelta, "k")
    /\ Get(remoteFile.doc, "k").t = "object"
    /\ Len(ForIn(Get(remoteFile.doc, "k"))) = 2
    /\ StructEq(Get(remoteFile.doc, "k"), Get(pass.mid.doc, "k"))
    /\ Get(remoteFile.doc, "k") # Get(pass.mid.doc, "k")

\* keys whose remote value is an array and that the local document has
ArrayKeys ==
    {k \in KeySet(remoteFile.doc) \cap KeySet(pass.mid.doc) :
        Ordinary(k) /\ Get(remoteFile.doc, k).t = "array"}

\* an array all of whose elements are numbers, strings or booleans
ScalarArray(v) ==
    /\ v.t = "array"
    /\ Len(v.kv) > 0
    /\ \A i \in 1..Len(v.kv) : v.kv[i].v.t \in {"number", "string", "boolean"}

\* C17 as claimed: an array is an opaque leaf compared by strict inequality,
\* its elements are never looked at: a remote array, never the same object as
\* the local value, is always a difference
C17_ArrayIsOpaqueLeaf ==
    RemoteReturned =>
        \A k \in ArrayKeys : HasWhole(pass.remDelta, remoteFile.doc, k)

\* C17 as amended: an array is recursed into, its indices as keys: a remote
\* array with the same elements as the local array is no difference, and a
\* remote array of scalars that differs from the local array in an element or
\* in length is in the delta whole
C17_ArrayIsComparedByElements ==
    RemoteReturned =>
        \A k \in ArrayKeys :
            Get(pass.mid.doc, k).t = "array" =>
                /\ StructEq(Get(remoteFile.doc, k), Get(pass.mid.doc, k))
                       => ~HasOwnProperty(pass.remDelta, k)
                /\ ScalarArray(Get(remoteFile.doc, k))
                   /\ ~StructEq(Get(remoteFile.doc, k), Get(pass.mid.doc, k))
                       => HasWhole(pass.remDelta, remoteFile.doc, k)

\* a pass over equal arrays with a delta for another key
C17_Witness ==
    /\ RemoteReturned
    /\ "k" \in ArrayKeys
    /\ ScalarArray(Get(remoteFile.doc, "k"))
    /\ Get(remoteFile.doc, "k") = Get(pass.mid.doc, "k")
    /\ ~HasOwnProperty(pass.remDelta, "k")
    /\ HasOwnProperty(pass.remDelta, "m")

-----------------------------------------------------------------------------
(* The installed versions of an extension pass (SpecExt) *)

\* C18: the id-to-version map an extension pass used is exactly the
\* extensions installed at the time of that pass: no entry of an earlier pass
\* is in it for an extension that is no longer installed
C18_VersionMapIsInstalledSet ==
    extPass.n >= 1 => localExtVersions = extPass.installedAt

\* C19: in a settings pass the defaults merge is written before the remote
\* comparison reads the local document: a key that the local document lacks
\* and that both the defaults and the remote document have ends the pass
\* with the remote value
C19_RemoteValueWinsOverDefault ==
    pass.n >= 1 /\ defName # "" =>
        \A k \in (KeySet(defaultsFile.doc) \cap KeySet(remoteFile.doc))
                    \ KeySet(pass.before.doc) :
            HasWhole(localFile.doc, remoteFile.doc, k)

-----------------------------------------------------------------------------
(* The steps of concurrent runs (Spec) *)

\* the positions at which a run waits for the user
Prompts == {"extInput", "extDialog", "setInput", "setDialog", "defInput", "defDialog"}

\* the keys of the local document a run writes outside a comparison
OwnKeys == {KeyExtPath, KeySetPath, KeyDefName}

\* a step in which compareSettings is called
PassStep == pass'.n # pass.n

\* C20: a reconciliation step (reading the local and remote documents,
\* computing the delta, writing the local document) is one step of one run:
\* between steps every other run is idle, ended or at a prompt, the comparison
\* reads the local document as the last step of any run left it, and a step
\* changes no key of the local document but the ones it writes, so that no
\* key written by one run is lost to another run's write
C20_ReconciliationIsOneStep ==
    [][/\ \A q \in Procs : run'[q].pc \in {"idle", "done"} \cup Prompts
       /\ \A p, q \in Procs : run'[p] # run[p] /\ run'[q] # run[q] => p = q
       /\ \A k \in KeySet(localFile.doc) :
             /\ HasOwnProperty(localFile'.doc, k)
             /\ Get(localFile'.doc, k) # Get(localFile.doc, k) =>
                   \/ k \in OwnKeys
                   \/ PassStep /\ k \in KeySet(pass'.defDelta) \cup KeySet(pass'.remDelta)
       /\ PassStep =>
             /\ \A k \in KeySet(localFile.doc) \ OwnKeys :
                   HasWhole(pass'.before.doc, localFile.doc, k)
             /\ \A k \in KeySet(pass'.remDelta) :
                   HasWhole(localFile'.doc, pass'.remDelta, k)
      ]_vars

C20_Witness ==
    /\ run["command"].op = "extensions"
    /\ run["command"].n = 1
    /\ run["command"].wrote
    /\ run["startup"].op = "settings"
    /\ run["startup"].synced # <<>>
    /\ run["startup"].inputs = 0
    /\ run["startup"].choice # "Disable"
    /\ pass.n = 1
    /\ run["startup"].startLocal # pass.before
    /\ localFile # pass.before
    /\ HasWhole(localFile.doc, pass.before.doc, KeyExtPath)

-----------------------------------------------------------------------------
(* The paths of concurrent runs (Spec) *)

\* C21: with runs interleaved, the settings comparison of a run reads the
\* remote settings from the path whose settings.json existence check
\* succeeded in that same run
C21_ComparesPathCheckedInSameRun ==
    \A p \in Procs :
        run[p].op = "settings" /\ run[p].synced # <<>> =>
            run[p].synced = run[p].confirmed

\* the remote extension path and the remote settings path as persisted in
\* the local settings document f ("" when the key is not there)
SavedPath(f, key) == IF HasOwnProperty(f.doc, key) THEN Get(f.doc, key).s ELSE ""

\* C22: the remote extension path and the remote settings path, in memory
\* and as persisted, are only ever changed to a path that passed the
\* existence check, and a run (with no other run in progress) that is
\* abandoned after a failed check leaves the persisted paths as they were
\* when the run started
C22_PathChangesOnlyToCheckedPath ==
    [][/\ extPath' # extPath => extPath' \in fsExt
       /\ setPath' # setPath => setPath' \in fsSet
       /\ SavedPath(localFile', KeyExtPath) # SavedPath(localFile, KeyExtPath)
             => SavedPath(localFile', KeyExtPath) \in fsExt
       /\ SavedPath(localFile', KeySetPath) # SavedPath(localFile, KeySetPath)
             => SavedPath(localFile', KeySetPath) \in fsSet
       /\ \A p \in Procs :
             /\ run'[p].result = "abandoned"
             /\ run'[p].dialogs > 0
             /\ \A q \in Procs \ {p} : run'[q].pc = "idle"
             => \A key \in {KeyExtPath, KeySetPath} :
                    SavedPath(localFile', key) = SavedPath(run'[p].startLocal, key)
      ]_vars

\* C23: when fetchSettings leaves the loop that confirms the default-settings
\* file and calls compareSettings, the default-settings filename is unset or
\* names a file that exists, whatever choice was made in the dialog
C23_ComparesWithConfirmedDefaults ==
    [][PassStep => defName' = "" \/ <<setPath', defName'>> \in fsDef]_vars

-----------------------------------------------------------------------------
(* Repeated extension passes (SpecExt) *)

\* a step in which installNewExtensions is called
ExtPassStep == extPass'.n # extPass.n

\* C24: an extension pass made after another one, with the remote store and
\* the installed extensions unchanged since (no reload in between), copies
\* nothing: an extension copied by the first pass is not copied again
C24_SecondPassCopiesNothing ==
    [][/\ ExtPassStep
       /\ extPass.n >= 1
       /\ installed = extPass.installedAt
       => extPass'.copied = {}
      ]_vars

-----------------------------------------------------------------------------
(* Saving the environment (SpecSave) *)

\* the sets of remote directories that exist at the start
ExistingDirs ==
    {ex \in SUBSET SavePaths : \A q \in ex : \A o \in SavePaths : Contains(o, q) => o \in ex}

\* the remote directories at the start: those of ex exist, each holds the
\* directories below it, the ones of old hold a file, and the settings
\* directory holds settings.json and the default-settings file if there are
StartDirs(ex, old, sp, remote, defaults) ==
    [q \in SavePaths |->
        Dir(q \in ex,
            {c \in ex : Contains(q, c)}
                \cup (IF q \in old THEN {"old"} ELSE {})
                \cup (IF q = sp /\ remote.st # "missing" THEN {"settings.json"} ELSE {})
                \cup (IF q = sp /\ defaults.st # "missing" THEN {"d"} ELSE {}))]

InitSave ==
    /\ \E paths \in {<<"", "">>, <<"p", "">>, <<"", "q">>, <<"p", "p">>,
                     <<"p", "p/e">>, <<"p", "pp">>, <<"p", "q">>} :
           setPath = paths[1] /\ extPath = paths[2]
    /\ defName \in {"", "d"}
    /\ localFile \in {BadFile, File("ok", ConfigDoc(extPath, setPath, defName))}
    /\ \E ex \in ExistingDirs :
        /\ defaultsFile =
               IF defName = "d" /\ setPath \in ex
               THEN File("ok", Doc(<<Entry(KeyPalSave, Bool(TRUE)), Entry("m", Num(1))>>))
               ELSE MissingFile
        /\ remoteFile \in {MissingFile} \cup
               (IF setPath \in ex
                THEN {File("ok", Doc(<<Entry(KeyPalSave, Bool(TRUE)),
                                       Entry("k", Num(2))>>))}
                ELSE {})
        /\ \E old \in {{}} \cup {{q} : q \in ex} :
               dirs = StartDirs(ex, old, setPath, remoteFile, defaultsFile)
    /\ fsExt = {q \in SavePaths : dirs[q].exists}
    /\ fsSet = {q \in SavePaths : "settings.json" \in dirs[q].items}
    /\ fsDef = IF defaultsFile.st = "missing" THEN {} ELSE {<<setPath, defName>>}
    /\ installed \in {NoVersions, [id \in ExtIds |-> Version(1, 0, 0)]}
    /\ remoteExts = <<>>
    /\ run = [p \in Procs |-> IdleRun]
    /\ pass = NoPass
    /\ extPass = NoExtPass
    /\ localExtVersions = NoVersions
    /\ save = IdleSave

\* a settings pass with the remote settings.json in place
FetchPass ==
    /\ setPath \in fsSet
    /\ SettingsPass

NextSave ==
    \/ SaveEnvironment
    \/ SaveExtInput
    \/ SaveSetInput
    \/ FetchPass

SpecSave == InitSave /\ [][NextSave]_vars

\* the keys of document doc that begin with fetchUserEnv
OwnSettings(doc) == {k \in KeySet(doc) : StartsWithFetchUserEnv(k)}

\* C25: no key that begins with fetchUserEnv goes from one environment to the
\* other: a settings pass has no such key in its deltas and leaves the local
\* ones as they were, and the remote settings document that saveEnvironment
\* writes has no such key
C25_OwnSettingsStayLocal ==
    [][/\ PassStep =>
             /\ OwnSettings(pass'.defDelta) = {}
             /\ OwnSettings(pass'.remDelta) = {}
             /\ OwnSettings(localFile'.doc) = OwnSettings(localFile.doc)
             /\ \A k \in OwnSettings(localFile.doc) :
                    Get(localFile'.doc, k) = Get(localFile.doc, k)
       /\ save'.wrote /\ save' # save =>
             /\ OwnSettings(remoteFile'.doc) = {}
             /\ \A k \in KeySet(localFile.doc) \ OwnSettings(localFile.doc) :
                    HasWhole(remoteFile'.doc, localFile.doc, k)
      ]_vars

C25_Witness ==
    /\ save.wrote
    /\ OwnSettings(defaultsFile.doc) # {}
    /\ HasOwnProperty(pass.defDelta, "m")
    /\ OwnSettings(localFile.doc) # {}
    /\ HasOwnProperty(remoteFile.doc, "k")
    /\ pass.n >= 1
    /\ pass.err = ""
    /\ OwnSettings(pass.before.doc) # {}

\* C26: saveEnvironment shows 'Current environment saved.' and writes
\* fetchUserEnv.palEnableSaveEnv = false only when copyEnvToRemote wrote the
\* remote settings and started the copies without an error
C26_SavedOnlyAfterCopy ==
    save.saved \/ save.disabled => save.wrote /\ save.copyErr = ""

\* the items saveEnvironment found other than one of the two directories
\* lying in the other
OtherItems(sv) ==
    (sv.setItems \ {q \in {sv.ep} : Contains(sv.sp, q)})
        \cup (sv.extItems \ {q \in {sv.sp} : Contains(sv.ep, q)})

\* C27: saveEnvironment writes to the remote locations only when the two
\* remote directories hold nothing but one of them lying in the other, and
\* for two directories neither of which contains the other an item in either
\* makes it refuse
C27_WritesOnlyToEmptyRemote ==
    /\ save.wrote \/ save.copied # {} => OtherItems(save) = {}
    /\ save.checked /\ save.sp # save.ep
          /\ ~Contains(save.sp, save.ep) /\ ~Contains(save.ep, save.sp)
          /\ save.setItems \cup save.extItems # {}
          => save.result = "refused"

=============================================================================
